---- MODULE Spec2Model ----
(***************************************************************************)
(* Model of the genice-petal format plugin                                 *)
(* (src/genice_petal/formats/petal.py): option parsing (hook0), registry   *)
(* selection, ring filtering and petal-graph construction (prepare),       *)
(* classification against the graph registry (collect) and the two report  *)
(* modes of hook2.                                                         *)
(*                                                                         *)
(* Strings are sequences of one-character strings; decimal keys of the     *)
(* JSON report are sequences of digits 0..9.  Fractional coordinates are   *)
(* multiples of 1/Q, held as integers.  A graph is a set of edges, an edge *)
(* a set {u, v} of nodes (networkx.Graph: simple, undirected).             *)
(***************************************************************************)
EXTENDS Integers, Sequences, FiniteSets, TLC

VARIABLES
    arg,         \* option string handed to hook0
    options,     \* the global `options` written by hook0, read by hook2
    pc,          \* position in the run: hook0, hook2, prepare, collect, report, done, failed
    err,         \* exception that ended the run ("none" while it runs)
    dbfile,      \* the file at the configured registry path: [exists, graphs]
    gcKind,      \* backend opened by hook2: none, volatile, sqlite
    gcCreate,    \* the create flag given to the sqlite backend
    gc,          \* registry content: gc[k+1] is the graph registered with ID k
    gcLast,      \* the graph of the registry's latest query_id call
    coord,       \* lattice.reppositions: node -> 3-vector, in units of 1/Q
    ringStream,  \* the rings the enumerator yields, in discovery order
    ri,          \* number of rings the enumerator has yielded so far
    rings,       \* prepare: the rings list
    subgraphs,   \* prepare: node -> petal graph (defaultdict)
    rings_at,    \* prepare: node -> set of ring IDs (defaultdict)
    order,       \* insertion order of the keys of subgraphs / rings_at
    ci,          \* collect: number of nodes classified so far
    ids,         \* collect: node -> ClassID
    nquery,      \* query_id calls made in this run
    nreg,        \* register calls made in this run
    gcAtOpen,    \* registry content when this run opened it
    stdout,      \* what this run has printed
    run,         \* number of the current run against the same inputs
    prevIds      \* the classification mapping of the previous run

vars == <<arg, options, pc, err, dbfile, gcKind, gcCreate, gc, gcLast, coord,
          ringStream, ri, rings, subgraphs, rings_at, order, ci, ids, nquery,
          nreg, gcAtOpen, stdout, run, prevIds>>

\* ------------------------------------------------------------------ bounds
MaxTokens == 2      \* colon-separated tokens in an option string
MaxRings == 2       \* rings the enumerator yields in one run
MaxRuns == 2        \* runs of the plugin against the same inputs
HalfQ == 2          \* coordinates are multiples of 1/Q, Q = 2 * HalfQ
NumY == 40          \* nodes of the classifications given to the ranked report

\* ------------------------------------------------------- program constants
TolInv == 10000     \* the tolerance 1e-4 of is_spanning, as 1/TolInv
TopK == 30          \* classes kept by the ranked report
maxring == 7        \* prepare's default maximum ring size

Q == 2 * HalfQ

Min(a, b) == IF a < b THEN a ELSE b
Range(s) == {s[i] : i \in 1..Len(s)}

\* ------------------------------------------------------------------ strings
None == <<"<None>">>
S_json == <<"j", "s", "o", "n">>
S_yaplot == <<"y", "a", "p", "l", "o", "t">>
S_http == <<"h", "t", "t", "p">>

\* str.find(c): 0-based index of the first occurrence, -1 when absent
find(s, c) ==
    IF \E i \in 1..Len(s) : s[i] = c
    THEN (CHOOSE i \in 1..Len(s) : s[i] = c /\ \A j \in 1..(i-1) : s[j] # c) - 1
    ELSE -1

\* str.split(c): the parts between the occurrences of c, empty parts kept
RECURSIVE split(_, _)
split(s, c) ==
    LET i == find(s, c)
    IN  IF i < 0 THEN <<s>>
        ELSE <<SubSeq(s, 1, i)>> \o split(SubSeq(s, i + 2, Len(s)), c)

\* ":".join(tokens)
RECURSIVE join(_)
join(ts) ==
    IF Len(ts) = 0 THEN <<>>
    ELSE IF Len(ts) = 1 THEN ts[1]
    ELSE ts[1] \o <<":">> \o join(Tail(ts))

\* ------------------------------------------------------------------- hook0
DefaultOptions == [database |-> None, json |-> FALSE, yaplot |-> FALSE]

\* key, value = a.split("="): unpacking needs exactly two parts
unpack_fails(a) == Len(split(a, "=")) # 2

\* the loop over the tokens: options so far, and the exception if one is raised
RECURSIVE hook0_loop(_, _, _)
hook0_loop(args, i, opts) ==
    IF i > Len(args) THEN [options |-> opts, err |-> "none"]
    ELSE LET a == args[i]
         IN  IF find(a, "=") >= 0
             THEN IF unpack_fails(a)
                  THEN [options |-> opts, err |-> "ValueError"]
                  ELSE hook0_loop(args, i + 1, opts)
             ELSE IF a = S_yaplot
                  THEN hook0_loop(args, i + 1, [opts EXCEPT !.yaplot = TRUE])
             ELSE IF a = S_json
                  THEN hook0_loop(args, i + 1, [opts EXCEPT !.json = TRUE])
             ELSE hook0_loop(args, i + 1, [opts EXCEPT !.database = a])

hook0_result(s) ==
    IF s = <<>> THEN [options |-> DefaultOptions, err |-> "none"]
    ELSE hook0_loop(split(s, ":"), 1, DefaultOptions)

\* ------------------------------------------------------------------ lattice
Node == {0, 1, 2, 10}
Axes == 1..3

Injective(s) == \A i, j \in 1..Len(s) : i # j => s[i] # s[j]
MinOf(S) == CHOOSE x \in S : \A y \in S : x <= y

\* one sequence per simple cycle over Node with 3..maxring nodes: it starts at
\* its least node and runs in the direction of the smaller neighbour
RingCatalog ==
    UNION { { r \in [1..n -> Node] :
                /\ Injective(r)
                /\ r[1] = MinOf(Range(r))
                /\ r[2] < r[n] }
            : n \in 3..Min(maxring, Cardinality(Node)) }

RECURSIVE SeqsUpTo(_, _)
SeqsUpTo(S, n) ==
    IF n = 0 THEN {<<>>}
    ELSE LET shorter == SeqsUpTo(S, n - 1)
         IN  shorter \cup {Append(s, x) : s \in shorter, x \in S}

RingStreams == {s \in SeqsUpTo(RingCatalog, MaxRings) : Injective(s)}

Origin == <<0, 0, 0>>
PosSet == {Origin, <<1, 0, HalfQ>>}

\* --------------------------------------------------------------- is_spanning
\* d - floor(d + 0.5) for d = D/Q, in units of 1/Q
minimum_image(D) == D - Q * ((2 * D + Q) \div (2 * Q))

RECURSIVE SumInts(_, _)
SumInts(f, n) == IF n = 0 THEN 0 ELSE f[n] + SumInts(f, n - 1)

\* ring[i-1] with Python's wrap-around of index -1
Prev(ring, i) == ring[IF i = 1 THEN Len(ring) ELSE i - 1]

\* dsum of is_spanning, in units of 1/Q
dsum(ring, pos) ==
    [a \in Axes |->
        SumInts([i \in 1..Len(ring) |->
                    minimum_image(pos[Prev(ring, i)][a] - pos[ring[i]][a])],
                Len(ring))]

\* |dsum|^2 in units of 1/Q^2
NormSq(v) == v[1] * v[1] + v[2] * v[2] + v[3] * v[3]

\* faulty variants: a tolerance of 1 instead of 1e-4; no test at all
is_spanning_mut(ring, pos) == NormSq(dsum(ring, pos)) > Q * Q
is_spanning_never(ring, pos) == FALSE
\* norm(dsum) > 1e-4, compared as squares: for an integer x,
\* x / Q^2 > 1 / TolInv^2 iff x > floor(Q^2 / TolInv^2)
is_spanning(ring, pos) == NormSq(dsum(ring, pos)) > (Q * Q) \div (TolInv * TolInv)

\* ------------------------------------------------------------------ prepare
\* faulty variant: the pair (last, first) is left out
ring_to_edge_mut(ring) == {<<ring[i - 1], ring[i]>> : i \in 2..Len(ring)}
\* ring_to_edge: the consecutive pairs of the ring, the pair (last, first) included
ring_to_edge(ring) == {<<Prev(ring, i), ring[i]>> : i \in 1..Len(ring)}

\* Graph.add_edge over the edges of a ring
add_ring_edges(g, ring) == g \cup {{e[1], e[2]} : e \in ring_to_edge(ring)}

\* the keys a ring adds to the two defaultdicts, in the order it adds them
RECURSIVE NewKeys(_, _, _)
NewKeys(ring, i, seen) ==
    IF i > Len(ring) THEN <<>>
    ELSE IF ring[i] \in seen THEN NewKeys(ring, i + 1, seen)
    ELSE <<ring[i]>> \o NewKeys(ring, i + 1, seen \cup {ring[i]})

\* the body of prepare's loop for a ring that passed the assertion
prepare_ring(st, ring) ==
    LET ringid == Len(st.rings)
        keys == DOMAIN st.subgraphs \cup Range(ring)
    IN  [rings |-> Append(st.rings, ring),
         rings_at |-> [n \in keys |->
             (IF n \in DOMAIN st.rings_at THEN st.rings_at[n] ELSE {})
             \cup (IF n \in Range(ring) THEN {ringid} ELSE {})],
         subgraphs |-> [n \in keys |->
             LET g == IF n \in DOMAIN st.subgraphs THEN st.subgraphs[n] ELSE {}
             IN  IF n \in Range(ring) THEN add_ring_edges(g, ring) ELSE g],
         order |-> st.order \o NewKeys(ring, 1, DOMAIN st.subgraphs)]

EmptyPrepare == [rings |-> <<>>, rings_at |-> <<>>, subgraphs |-> <<>>, order |-> <<>>]

\* ----------------------------------------------------------------- registry
\* graph isomorphism: a bijection of the nodes that maps edges onto edges
NodesOf(g) == UNION g
Iso(g, h) ==
    /\ Cardinality(g) = Cardinality(h)
    /\ Cardinality(NodesOf(g)) = Cardinality(NodesOf(h))
    /\ \E f \in [NodesOf(g) -> NodesOf(h)] :
          /\ \A a, b \in NodesOf(g) : a # b => f[a] # f[b]
          /\ {{f[a] : a \in e} : e \in g} = h

\* GraphStat.query_id: the ID of the registered graph isomorphic to g, else -1
query_id(reg, g) ==
    IF \E k \in 1..Len(reg) : Iso(reg[k], g)
    THEN (CHOOSE k \in 1..Len(reg) :
            Iso(reg[k], g) /\ \A j \in 1..(k - 1) : ~Iso(reg[j], g)) - 1
    ELSE -1

\* GraphStat.register: the latest queried graph gets the next ID
register_id(reg) == Len(reg)
register(reg, g) == Append(reg, g)

\* ------------------------------------------------------------------ collect
\* faulty variant: ID 0 is taken for "not found"
needs_register_mut(id) == id <= 0
\* if id < 0
needs_register(id) == id < 0

\* faulty variant: the registered ID is dropped
stored_id_mut(queried, registered) == queried
\* the value collect stores for a node: the queried ID, or the registered one
stored_id(queried, registered) ==
    IF needs_register(queried) THEN registered ELSE queried

\* ------------------------------------------------------------- hook2: report
\* str(i) of a non-negative integer: its decimal digits
RECURSIVE str(_)
str(n) == IF n < 10 THEN <<n>> ELSE str(n \div 10) \o <<n % 10>>

\* Python's < on strings: the first differing character decides, a proper
\* prefix is smaller
str_less(a, b) ==
    \E i \in 1..(Min(Len(a), Len(b)) + 1) :
        /\ \A j \in 1..(i - 1) : a[j] = b[j]
        /\ \/ i > Len(a) /\ i <= Len(b)
           \/ i <= Len(a) /\ i <= Len(b) /\ a[i] < b[i]

\* faulty variant: the order of numbers instead of the order of strings
key_less_mut(a, b) == Len(a) < Len(b) \/ (Len(a) = Len(b) /\ str_less(a, b))
\* json.dumps compares the keys, which are strings
key_less(a, b) == str_less(a, b)

\* sort_keys=True: the keys in ascending order
RECURSIVE sorted_keys(_)
sorted_keys(K) ==
    IF K = {} THEN <<>>
    ELSE LET k == CHOOSE x \in K : \A y \in K \ {x} : key_less(x, y)
         IN  <<k>> \o sorted_keys(K \ {k})

\* json.dumps({str(i): gids[i] for i in gids}, sort_keys=True): the items
json_dumps(gids) ==
    LET val(k) == gids[CHOOSE n \in DOMAIN gids : str(n) = k]
        ks == sorted_keys({str(n) : n \in DOMAIN gids})
    IN  [i \in 1..Len(ks) |-> <<ks[i], val(ks[i])>>]

\* the keys of `count` in insertion order: ClassIDs by first occurrence
RECURSIVE count_keys(_, _, _)
count_keys(nodes, gids, i) ==
    IF i > Len(nodes) THEN <<>>
    ELSE IF \E j \in 1..(i - 1) : gids[nodes[j]] = gids[nodes[i]]
         THEN count_keys(nodes, gids, i + 1)
         ELSE <<gids[nodes[i]]>> \o count_keys(nodes, gids, i + 1)

class_count(nodes, gids, gid) == Cardinality({n \in Range(nodes) : gids[n] = gid})

\* faulty variant: ascending counts
sort_prefers_mut(c1, c2) == c1 <= c2
\* sorted(count, key=lambda gid: -count[gid]): stable, so among equal counts
\* the earlier key stays first
sort_prefers(c1, c2) == c1 >= c2

RECURSIVE sorted_by_count(_, _, _)
sorted_by_count(keys, nodes, gids) ==
    IF Len(keys) = 0 THEN <<>>
    ELSE LET cnt(i) == class_count(nodes, gids, keys[i])
             best == CHOOSE i \in 1..Len(keys) :
                        /\ \A j \in 1..Len(keys) : sort_prefers(cnt(i), cnt(j))
                        /\ \A j \in 1..(i - 1) : cnt(j) # cnt(i)
             rest == [j \in 1..(Len(keys) - 1) |->
                        IF j < best THEN keys[j] ELSE keys[j + 1]]
         IN  <<keys[best]>> \o sorted_by_count(rest, nodes, gids)

\* top10 = sorted(...)[:30]
top10(nodes, gids) ==
    LET s == sorted_by_count(count_keys(nodes, gids, 1), nodes, gids)
    IN  SubSeq(s, 1, Min(TopK, Len(s)))

\* ranks = {gid: i for i, gid in enumerate(top10)}
rank_of(top, gid) == (CHOOSE i \in 1..Len(top) : top[i] = gid) - 1

\* `for ringid in rings_at[node]`: CPython walks the slots of the set's hash
\* table; a set of fewer than five small integers has eight slots and an
\* integer sits in slot (value mod 8) when no other element claims that slot,
\* which is so for the sets of ring IDs built here
RECURSIVE set_iter(_)
set_iter(S) ==
    IF S = {} THEN <<>>
    ELSE LET x == CHOOSE y \in S : \A z \in S : (y % 8) <= (z % 8)
         IN  <<x>> \o set_iter(S \ {x})

\* what the yaplot branch appends to s for one node: Color, Layer and one
\* Polygon per ring of the node (the polygon is named by its ring and centre)
yaplot_node(node, gids, ringsAt, top) ==
    IF gids[node] \in Range(top)
    THEN LET rank == rank_of(top, gids[node])
             rs == set_iter(ringsAt[node])
         IN  <<<<"Color", rank + 3>>, <<"Layer", rank + 1>>>>
             \o [i \in 1..Len(rs) |-> <<"Polygon", node, rs[i]>>]
    ELSE <<>>

RECURSIVE yaplot_loop(_, _, _, _, _)
yaplot_loop(nodes, i, gids, ringsAt, top) ==
    IF i > Len(nodes) THEN <<>>
    ELSE yaplot_node(nodes[i], gids, ringsAt, top)
         \o yaplot_loop(nodes, i + 1, gids, ringsAt, top)

yaplot_dumps(nodes, gids, ringsAt) ==
    yaplot_loop(nodes, 1, gids, ringsAt, top10(nodes, gids))

\* what hook2 prints after collect
report(opts, nodes, gids, ringsAt) ==
    IF opts.json THEN <<[kind |-> "json", body |-> json_dumps(gids)]>>
    ELSE IF opts.yaplot
         THEN <<[kind |-> "yaplot", body |-> yaplot_dumps(nodes, gids, ringsAt)]>>
    ELSE <<>>

\* ------------------------------------------------------------------- inputs
S_db == <<"d", "b">>
TokenCatalog ==
    {S_json, S_yaplot, S_http, S_db, <<"h", "t", "t", "p", "d">>,
     <<"k", "=", "v">>, <<"=">>, <<"a", "=", "b", "=", "c">>}
AllArgs == {join(ts) : ts \in SeqsUpTo(TokenCatalog, MaxTokens)}
MainArgs == {<<>>, S_json, S_yaplot, join(<<S_db, S_json>>)}

NoFile == [exists |-> FALSE, graphs |-> <<>>]
\* a registry file left by an earlier run: one class, a triangle
OldFile == [exists |-> TRUE, graphs |-> <<{{5, 6}, {6, 7}, {5, 7}}>>]

\* the state before hook0 of a run over the given inputs
RunStart ==
    /\ pc = "hook0"
    /\ err = "none"
    /\ options = DefaultOptions
    /\ gcKind = "none"
    /\ gcCreate = FALSE
    /\ gc = <<>>
    /\ gcLast = {}
    /\ gcAtOpen = <<>>
    /\ ri = 0
    /\ rings = <<>>
    /\ subgraphs = <<>>
    /\ rings_at = <<>>
    /\ order = <<>>
    /\ ci = 0
    /\ ids = <<>>
    /\ nquery = 0
    /\ nreg = 0
    /\ stdout = <<>>

Init ==
    /\ \/ /\ arg \in MainArgs
          /\ coord \in [Node -> PosSet]
          /\ ringStream \in RingStreams
          \* the file matters only to the runs that name one
          /\ dbfile \in (IF hook0_result(arg).options.database = None
                         THEN {NoFile} ELSE {NoFile, OldFile})
       \/ /\ arg \in AllArgs
          /\ coord = [n \in Node |-> Origin]
          /\ ringStream = <<<<0, 1, 2>>>>
          /\ dbfile \in {NoFile, OldFile}
    /\ run = 1
    /\ prevIds = <<>>
    /\ RunStart

\* ------------------------------------------------------------------ actions
Fail(e) == pc' = "failed" /\ err' = e

\* hook0: parse the option string into the global options
Hook0 ==
    /\ pc = "hook0"
    /\ LET r == hook0_result(arg)
       IN  /\ options' = r.options
           /\ IF r.err = "none" THEN pc' = "hook2" /\ err' = err ELSE Fail(r.err)
    /\ UNCHANGED <<arg, dbfile, gcKind, gcCreate, gc, gcLast, coord, ringStream,
                   ri, rings, subgraphs, rings_at, order, ci, ids, nquery, nreg,
                   gcAtOpen, stdout, run, prevIds>>

\* faulty variant: the file is created anew on every run
sqlite_create_mut(exists) == TRUE
\* create = not os.path.isfile(database)
sqlite_create(exists) == ~exists

\* database[:4] == "http"
is_http(database) == SubSeq(database, 1, Min(4, Len(database))) = S_http

\* hook2 up to the call of prepare: open the registry
Hook2Open ==
    /\ pc = "hook2"
    /\ IF options.database = None
       THEN /\ gcKind' = "volatile"
            /\ gc' = <<>>
            /\ pc' = "prepare"
            /\ UNCHANGED <<gcCreate, dbfile, err>>
       ELSE IF is_http(options.database)
       THEN \* graphstat_mysql is not among the imports: NameError
            /\ Fail("NameError")
            /\ UNCHANGED <<gcKind, gc, gcCreate, dbfile>>
       ELSE /\ gcKind' = "sqlite"
            /\ gcCreate' = sqlite_create(dbfile.exists)
            /\ dbfile' = [exists |-> TRUE,
                          graphs |-> IF gcCreate' THEN <<>> ELSE dbfile.graphs]
            /\ gc' = dbfile'.graphs
            /\ pc' = "prepare"
            /\ UNCHANGED err
    /\ gcAtOpen' = gc'
    /\ UNCHANGED <<arg, options, gcLast, coord, ringStream, ri, rings, subgraphs,
                   rings_at, order, ci, ids, nquery, nreg, stdout, run, prevIds>>

\* prepare: one turn of the loop over the enumerator's rings
PrepareRing ==
    /\ pc = "prepare"
    /\ ri < Len(ringStream)
    /\ ri' = ri + 1
    /\ LET ring == ringStream[ri + 1]
       IN  IF is_spanning(ring, coord)
           THEN /\ Fail("AssertionError")
                /\ UNCHANGED <<rings, subgraphs, rings_at, order>>
           ELSE LET st == prepare_ring([rings |-> rings, rings_at |-> rings_at,
                                        subgraphs |-> subgraphs, order |-> order],
                                       ring)
                IN  /\ rings' = st.rings
                    /\ rings_at' = st.rings_at
                    /\ subgraphs' = st.subgraphs
                    /\ order' = st.order
                    /\ UNCHANGED <<pc, err>>
    /\ UNCHANGED <<arg, options, dbfile, gcKind, gcCreate, gc, gcLast, coord,
                   ringStream, ci, ids, nquery, nreg, gcAtOpen, stdout, run, prevIds>>

\* prepare returns once the enumerator is exhausted
PrepareReturn ==
    /\ pc = "prepare"
    /\ ri = Len(ringStream)
    /\ pc' = "collect"
    /\ UNCHANGED <<arg, options, err, dbfile, gcKind, gcCreate, gc, gcLast, coord,
                   ringStream, ri, rings, subgraphs, rings_at, order, ci, ids,
                   nquery, nreg, gcAtOpen, stdout, run, prevIds>>

\* collect: one turn of the loop over the nodes of subgraphs
CollectNode ==
    /\ pc = "collect"
    /\ ci < Len(order)
    /\ ci' = ci + 1
    /\ LET node == order[ci + 1]
           g == subgraphs[node]
           queried == query_id(gc, g)
       IN  /\ gcLast' = g
           /\ nquery' = nquery + 1
           /\ IF needs_register(queried)
              THEN /\ gc' = register(gc, g)
                   /\ nreg' = nreg + 1
              ELSE UNCHANGED <<gc, nreg>>
           /\ ids' = [n \in DOMAIN ids \cup {node} |->
                        IF n = node THEN stored_id(queried, register_id(gc))
                        ELSE ids[n]]
    /\ dbfile' = IF gcKind = "sqlite" THEN [dbfile EXCEPT !.graphs = gc'] ELSE dbfile
    /\ UNCHANGED <<arg, options, pc, err, gcKind, gcCreate, coord, ringStream, ri,
                   rings, subgraphs, rings_at, order, gcAtOpen, stdout, run, prevIds>>

\* collect returns the mapping
CollectReturn ==
    /\ pc = "collect"
    /\ ci = Len(order)
    /\ pc' = "report"
    /\ UNCHANGED <<arg, options, err, dbfile, gcKind, gcCreate, gc, gcLast, coord,
                   ringStream, ri, rings, subgraphs, rings_at, order, ci, ids,
                   nquery, nreg, gcAtOpen, stdout, run, prevIds>>

\* hook2 after collect: print the report of the selected mode
Report ==
    /\ pc = "report"
    /\ stdout' = stdout \o report(options, order, ids, rings_at)
    /\ pc' = "done"
    /\ UNCHANGED <<arg, options, err, dbfile, gcKind, gcCreate, gc, gcLast, coord,
                   ringStream, ri, rings, subgraphs, rings_at, order, ci, ids,
                   nquery, nreg, gcAtOpen, run, prevIds>>

\* the orchestrator runs the plugin again with the same options and lattice;
\* only the registry file outlives the run
Rerun ==
    /\ pc = "done"
    /\ run < MaxRuns
    /\ run' = run + 1
    /\ prevIds' = ids
    /\ pc' = "hook0"
    /\ err' = "none"
    /\ options' = DefaultOptions
    /\ gcKind' = "none"
    /\ gcCreate' = FALSE
    /\ gc' = <<>>
    /\ gcLast' = {}
    /\ gcAtOpen' = <<>>
    /\ ri' = 0
    /\ rings' = <<>>
    /\ subgraphs' = <<>>
    /\ rings_at' = <<>>
    /\ order' = <<>>
    /\ ci' = 0
    /\ ids' = <<>>
    /\ nquery' = 0
    /\ nreg' = 0
    /\ stdout' = <<>>
    /\ UNCHANGED <<arg, dbfile, coord, ringStream>>

Next ==
    \/ Hook0
    \/ Hook2Open
    \/ PrepareRing
    \/ PrepareReturn
    \/ CollectNode
    \/ CollectReturn
    \/ Report
    \/ Rerun

Spec == Init /\ [][Next]_vars

\* ------------------------------------------- the ranked report on its own
\* classifications with more classes than TopK need more nodes than the
\* lattices of Init have: the report stage is run on the output of prepare
\* for a chain of triangles and a classification drawn from a family
YRings(w) == [k \in 1..(((NumY - 3) \div w) + 1) |->
                <<w * (k - 1), w * (k - 1) + 1, w * (k - 1) + 2>>]

RECURSIVE prepare_all(_, _)
prepare_all(rs, n) ==
    IF n = 0 THEN EmptyPrepare ELSE prepare_ring(prepare_all(rs, n - 1), rs[n])

YClass(n, a, b, c, m) ==
    (((a * n * n + b * n) % m) + (IF n >= m THEN c ELSE 0)) % m

InitYaplot ==
    \E w \in 1..3, a \in 0..1, b \in 1..2, c \in {0, 17}, m \in {1, 7, 31, 36, 40} :
        LET st == prepare_all(YRings(w), Len(YRings(w)))
        IN  /\ arg = S_yaplot
            /\ options = [DefaultOptions EXCEPT !.yaplot = TRUE]
            /\ pc = "report"
            /\ err = "none"
            /\ dbfile = NoFile
            /\ gcKind = "volatile"
            /\ gcCreate = FALSE
            /\ gc = <<>>
            /\ gcLast = {}
            /\ gcAtOpen = <<>>
            /\ coord = [n \in 0..(NumY - 1) |-> Origin]
            /\ ringStream = YRings(w)
            /\ ri = Len(YRings(w))
            /\ rings = st.rings
            /\ subgraphs = st.subgraphs
            /\ rings_at = st.rings_at
            /\ order = st.order
            /\ ci = Len(st.order)
            /\ ids = [n \in Range(st.order) |-> YClass(n, a, b, c, m)]
            /\ nquery = Len(st.order)
            /\ nreg = 0
            /\ stdout = <<>>
            /\ run = 1
            /\ prevIds = <<>>

NextYaplot == Report

SpecYaplot == InitYaplot /\ [][NextYaplot]_vars

\* =============================================================== properties
\* what the properties speak of, stated apart from the pipeline's operators
RingsContaining(N) == {i \in 0..(Len(rings) - 1) : N \in Range(rings[i + 1])}
CyclicEdges(ring) == {{ring[i], ring[(i % Len(ring)) + 1]} : i \in 1..Len(ring)}
RingOwners == {N \in DOMAIN coord : RingsContaining(N) # {}}
\* the norm of the summed minimum-image displacements is below 1e-4:
\* x / Q^2 < 1 / TolInv^2 iff x <= floor((Q^2 - 1) / TolInv^2)
Closes(ring) == NormSq(dsum(ring, coord)) <= (Q * Q - 1) \div (TolInv * TolInv)
IsPrefix(s, t) == Len(s) <= Len(t) /\ SubSeq(t, 1, Len(s)) = s
AfterPrepare == pc \in {"collect", "report", "done"}

\* C1: once prepare has processed every ring, a node in no ring has no entry,
\* and for every other node N rings_at[N] is the set of IDs of the rings that
\* contain N and subgraphs[N] has exactly the cyclic consecutive-pair edges of
\* those rings.
C1_PetalIsUnionOfItsRings ==
    AfterPrepare =>
        /\ rings = ringStream
        /\ DOMAIN subgraphs = RingOwners
        /\ DOMAIN rings_at = RingOwners
        /\ \A N \in RingOwners :
              /\ rings_at[N] = RingsContaining(N)
              /\ subgraphs[N] = UNION {CyclicEdges(rings[i + 1]) : i \in rings_at[N]}

C1_Witness ==
    /\ pc = "collect"
    /\ Len(rings) = 2
    /\ \E N, M \in RingOwners :
          /\ Cardinality(rings_at[N]) = 2
          /\ Cardinality(rings_at[M]) = 1
          /\ Cardinality(subgraphs[N]) > Cardinality(subgraphs[M])

\* C2: two classified nodes whose petal graphs are isomorphic have the same
\* ClassID, whatever the labels of the graphs' nodes and the order of the nodes.
C2_IsomorphicPetalsShareId ==
    \A n, m \in DOMAIN ids :
        Iso(subgraphs[n], subgraphs[m]) => ids[n] = ids[m]

C2_Witness ==
    /\ pc = "report"
    /\ \E n, m, k \in DOMAIN ids :
          /\ subgraphs[n] # subgraphs[m]
          /\ Iso(subgraphs[n], subgraphs[m])
          /\ ids[n] = ids[m]
          /\ ids[k] # ids[n]
          /\ order[1] = k

\* C3: the registry holds one graph per class, the IDs in use are 0..k-1 for
\* its k classes, every register call of the run added one class, a register
\* call gives the new class the next ID, and the classes already registered
\* keep their IDs, in the run and in the registry file.
C3_IdsMonotoneNeverReused ==
    /\ [](/\ \A n \in DOMAIN ids : ids[n] \in 0..(Len(gc) - 1)
          /\ \A i, j \in 1..Len(gc) : i # j => ~Iso(gc[i], gc[j])
          /\ Len(gc) = Len(gcAtOpen) + nreg
          /\ (gcKind = "volatile" \/ gcCreate) => gcAtOpen = <<>>)
    /\ [][/\ pc = "collect" /\ nreg' # nreg =>
                /\ nreg' = nreg + 1
                /\ Len(gc') = Len(gc) + 1
                /\ ids'[order[ci + 1]] = Len(gc)
                /\ query_id(gc, gc'[Len(gc')]) < 0
          /\ pc \in {"prepare", "collect", "report"} => IsPrefix(gc, gc')
          /\ dbfile.exists /\ ~gcCreate' => IsPrefix(dbfile.graphs, dbfile'.graphs)]_vars

C3_Witness ==
    /\ pc = "done"
    /\ gcAtOpen = <<>>
    /\ nreg = 2
    /\ {ids[n] : n \in DOMAIN ids} = {0, 1}
    /\ Cardinality(DOMAIN ids) = 4

\* C4: every ring of the rings list closes (norm below 1e-4), no ring the
\* enumerator yielded is dropped, and prepare fails with an assertion error
\* exactly at the first ring that does not close.
C4_SpanningRingAborts ==
    /\ \A i \in 1..Len(rings) : Closes(rings[i])
    /\ (pc \in {"prepare", "collect", "report", "done"}) =>
          rings = SubSeq(ringStream, 1, ri)
    /\ err = "AssertionError" =>
          /\ pc = "failed"
          /\ ri >= 1
          /\ ~Closes(ringStream[ri])
          /\ rings = SubSeq(ringStream, 1, ri - 1)
    /\ (pc = "failed" /\ ri >= 1) => err = "AssertionError"

C4_Witness ==
    /\ err = "AssertionError"
    /\ Len(rings) = 1
    /\ \E a \in Axes : dsum(ringStream[ri], coord)[a] \in {Q, -Q}

\* C5: a second run against the same registry file with the same lattice
\* gives every node the ClassID of the first run and registers nothing.
C5_RerunIsIdempotent ==
    (run >= 2 /\ gcKind = "sqlite" /\ pc \in {"report", "done"}) =>
        /\ ids = prevIds
        /\ nreg = 0

C5_Witness ==
    /\ run = 2
    /\ gcKind = "sqlite"
    /\ pc = "done"
    /\ Cardinality({prevIds[n] : n \in DOMAIN prevIds}) = 2
    /\ Len(gc) = 3

\* the decimal number a string of digits stands for
RECURSIVE parse_int(_)
parse_int(k) ==
    IF Len(k) = 0 THEN 0 ELSE 10 * parse_int(SubSeq(k, 1, Len(k) - 1)) + k[Len(k)]

\* C6: in JSON mode the run prints one object whose keys are the decimal
\* strings of exactly the nodes that are in a ring, each with the node's
\* ClassID, in ascending order of the strings (not of the numbers).
C6_JsonKeysAndOrder ==
    (pc = "done" /\ options.json) =>
        /\ Len(stdout) = 1
        /\ stdout[1].kind = "json"
        /\ LET body == stdout[1].body
           IN  /\ {parse_int(body[i][1]) : i \in 1..Len(body)} = RingOwners
               /\ \A i \in 1..Len(body) :
                     /\ body[i][1] = str(parse_int(body[i][1]))
                     /\ body[i][2] = ids[parse_int(body[i][1])]
               /\ \A i, j \in 1..Len(body) :
                     i < j => str_less(body[i][1], body[j][1])

C6_Witness ==
    /\ pc = "done"
    /\ options.json
    /\ RingOwners = {1, 2, 10}
    /\ stdout[1].body[1][1] = <<1>>
    /\ stdout[1].body[2][1] = <<1, 0>>
    /\ stdout[1].body[3][1] = <<2>>

HasEquals(a) == \E i \in 1..Len(a) : a[i] = "="
NoEquals(a) == ~HasEquals(a)
StartsWithHttp(a) == Len(a) >= 4 /\ SubSeq(a, 1, 4) = S_http
IsBackendToken(a) == NoEquals(a) /\ a # S_json /\ a # S_yaplot

\* C7: hook0 never raises on a token that contains "=", and the options it
\* leaves are those of the option string without such tokens.
C7_EqualsTokensSkipped ==
    pc # "hook0" =>
        /\ err # "ValueError"
        /\ options = hook0_result(join(SelectSeq(split(arg, ":"), NoEquals))).options

\* C8: once hook0 has parsed the options, hook2 opens the registry the bare
\* tokens name (none: volatile, http...: network, else: the file, which then
\* exists) and goes on to enumerate the rings.
C8_BackendFromTokens ==
    (pc \notin {"hook0", "hook2"} /\ err # "ValueError") =>
        LET bare == IF arg = <<>> THEN <<>>
                    ELSE SelectSeq(split(arg, ":"), IsBackendToken)
        IN  /\ err # "NameError"
            /\ IF bare = <<>> THEN gcKind = "volatile"
               ELSE IF StartsWithHttp(bare[Len(bare)]) THEN gcKind = "network"
               ELSE gcKind = "sqlite" /\ dbfile.exists

\* the ranked report as printed: its tokens, the polygons among them, and the
\* rank a polygon is drawn with (the Color token before it carries rank + 3)
YBody == stdout[1].body
YPolygons == {i \in 1..Len(YBody) : YBody[i][1] = "Polygon"}
YColors == {i \in 1..Len(YBody) : YBody[i][1] = "Color"}
YRankAt(i) ==
    YBody[CHOOSE j \in YColors : j < i /\ \A k \in YColors : k < i => k <= j][2] - 3
YClasses == {ids[n] : n \in DOMAIN ids}
YCount(c) == Cardinality({n \in DOMAIN ids : ids[n] = c})
YSelected == {ids[YBody[i][2]] : i \in YPolygons}

\* C9: in yaplot mode the classes drawn are TopK classes of highest node count
\* (all of them when there are fewer), their ranks are 0..K-1 in non-increasing
\* order of count, and exactly one polygon is printed for each pair of a node
\* of a drawn class and a ring of that node; other nodes print nothing.
C9_TopKRankedPolygons ==
    (pc = "done" /\ options.yaplot /\ ~options.json) =>
        /\ Len(stdout) = 1
        /\ stdout[1].kind = "yaplot"
        /\ \A i \in YPolygons : \E j \in YColors : j < i
        /\ LET polygons == YPolygons
               selected == YSelected
               count == [c \in YClasses |-> YCount(c)]
               rank == [i \in polygons |-> YRankAt(i)]
               class == [i \in polygons |-> ids[YBody[i][2]]]
               rankOfClass == [c \in selected |->
                                 rank[CHOOSE i \in polygons : class[i] = c]]
           IN  /\ Cardinality(selected) = Min(TopK, Cardinality(YClasses))
               /\ \A c \in selected, d \in YClasses \ selected : count[c] >= count[d]
               /\ \A i \in polygons : rank[i] = rankOfClass[class[i]]
               /\ {rankOfClass[c] : c \in selected} = 0..(Cardinality(selected) - 1)
               /\ \A c, d \in selected :
                     rankOfClass[c] < rankOfClass[d] => count[c] >= count[d]
               /\ {<<YBody[i][2], YBody[i][3]>> : i \in polygons}
                     = UNION {{<<n, r>> : r \in rings_at[n]} :
                                n \in {k \in DOMAIN ids : ids[k] \in selected}}
               /\ Cardinality({<<YBody[i][2], YBody[i][3]>> : i \in polygons})
                     = Cardinality(polygons)
               /\ Cardinality(YColors)
                     = Cardinality({n \in DOMAIN ids : ids[n] \in selected})

C9_Witness ==
    /\ pc = "done"
    /\ options.yaplot
    /\ Cardinality(YClasses) > TopK
    /\ Cardinality(YSelected) = TopK
    /\ \E c, d \in YSelected : YCount(c) > YCount(d)
    /\ \E c \in YSelected, d \in YClasses \ YSelected :
          /\ YCount(c) = YCount(d)
          /\ \E e \in YSelected : YCount(e) > YCount(c) /\ e > d

\* C10: a run that failed on a spanning ring has made no query_id or register
\* call, left the registry as it opened it and printed nothing; a run that has
\* printed has seen every ring close and has classified every node of a ring.
C10_AbortBeforeClassification ==
    /\ err = "AssertionError" =>
          /\ nquery = 0
          /\ nreg = 0
          /\ gc = gcAtOpen
          /\ gcKind = "sqlite" => dbfile.graphs = gcAtOpen
          /\ ids = <<>>
          /\ stdout = <<>>
    /\ stdout # <<>> =>
          /\ pc = "done"
          /\ ri = Len(ringStream)
          /\ \A i \in 1..Len(ringStream) : Closes(ringStream[i])
          /\ DOMAIN ids = RingOwners
          /\ nquery = Cardinality(RingOwners)

C10_Witness ==
    /\ err = "AssertionError"
    /\ gcKind = "sqlite"
    /\ Len(gc) = 1
    /\ Len(rings) = 1
    /\ options.json

====
